---- MODULE Spec2Model ----
(***************************************************************************)
(* Issue tracker (backend/app): the issue table as changed by the issues   *)
(* API, the clock, and the engines that read them: the escalation /        *)
(* notification engine (SmartNotificationEngine) and the assignment engine *)
(* (SmartAssignmentEngine).  Of the issues API, create_issue and           *)
(* update_issue are modelled; rows are never deleted.  The engines are     *)
(* also run on snapshots of the tables (SpecEsc, SpecNotif, SpecRank,      *)
(* SpecLoad, SpecFault, SpecCache), update_issue on one (SpecEdit), and    *)
(* the rate limiter of the service instances under concurrent calls        *)
(* (SpecRate).                                                             *)
(*                                                                         *)
(* Conventions of the encoding                                             *)
(*   - time is counted in whole hours; a timestamp that is None is -1;     *)
(*   - business hours are kept in hundredths of an hour, so that the       *)
(*     factor 0.33 of get_business_hours_between is the integer 33;        *)
(*   - an id that is None is 0 (ids start at 1; Python's `not None` and    *)
(*     `not 0` agree);                                                     *)
(*   - an enum member is the string "Class.MEMBER", distinct from the      *)
(*     plain string of its value, as a Python Enum member is;              *)
(*   - scores of the assignment engine are kept in hundredths, experience  *)
(*     scores in tenths;                                                   *)
(*   - in SpecRate the clock counts tenths of a second.                    *)
(***************************************************************************)
EXTENDS Integers, Sequences, FiniteSets, TLC

VARIABLES issues, status_changed_at, now, resp, users,
          cache, last_api_call, tasks, passed, faults

\* what the service instances own (cache, last_api_call), the coroutines
\* inside _rate_limit and the calls they let through (tasks, passed), and
\* the database queries that raise (faults)
service_vars == <<cache, last_api_call, tasks, passed, faults>>

vars == <<issues, status_changed_at, now, resp, users, service_vars>>

(***************************************************************************)
(* Bounds of the model.                                                    *)
(***************************************************************************)
MaxIssues == 1
MaxTicks == 5
TickHours == 5
MaxEscHours == 1020

(***************************************************************************)
(* Enumerations (models.py).                                               *)
(***************************************************************************)
ADMIN == "UserRole.ADMIN"
MAINTAINER == "UserRole.MAINTAINER"
REPORTER == "UserRole.REPORTER"
UserRole == {ADMIN, MAINTAINER, REPORTER}

OPEN == "IssueStatus.OPEN"
TRIAGED == "IssueStatus.TRIAGED"
IN_PROGRESS == "IssueStatus.IN_PROGRESS"
DONE == "IssueStatus.DONE"
IssueStatus == {OPEN, TRIAGED, IN_PROGRESS, DONE}

LOW == "IssueSeverity.LOW"
MEDIUM == "IssueSeverity.MEDIUM"
HIGH == "IssueSeverity.HIGH"
CRITICAL == "IssueSeverity.CRITICAL"
IssueSeverity == {LOW, MEDIUM, HIGH, CRITICAL}

NoId == 0
NoTime == -1
NoLevel == "None"

(***************************************************************************)
(* The user table of the issue-API and escalation specifications: one user *)
(* of each role, all active.  A table is a sequence of rows, row k holding *)
(* the user of id k.                                                       *)
(***************************************************************************)
UserIds == {1, 2, 3}

SeedUsers ==
    [u \in UserIds |->
        [id |-> u,
         role |-> CASE u = 1 -> ADMIN [] u = 2 -> MAINTAINER [] OTHER -> REPORTER,
         is_active |-> TRUE]]

(***************************************************************************)
(* Helpers.                                                                *)
(***************************************************************************)
Max(a, b) == IF a >= b THEN a ELSE b

Range(s) == {s[k] : k \in 1..Len(s)}

MapSeq(s, f(_)) == [k \in 1..Len(s) |-> f(s[k])]

RECURSIVE SumSeq(_)
SumSeq(s) == IF s = <<>> THEN 0 ELSE Head(s) + SumSeq(Tail(s))

RECURSIVE Concat(_)
Concat(ss) == IF ss = <<>> THEN <<>> ELSE Head(ss) \o Concat(Tail(ss))

(***************************************************************************)
(* AIBaseService text helpers (base.py).  A text is the sequence of its    *)
(* lower-case alphanumeric words.                                          *)
(***************************************************************************)
common_words ==
    {"the", "a", "an", "and", "or", "but", "in", "on", "at", "to", "for",
     "of", "with", "by", "is", "are", "was", "were", "be", "been", "have",
     "has", "had", "will", "would", "could", "should", "this", "that", "it"}

extract_keywords(text) ==
    {w \in Range(text) : Len(w) > 2 /\ w \notin common_words}

\* similarity > 0.4, i.e. |intersection| / |union| > 4/10
similarity_above_threshold(text1, text2) ==
    LET keywords1 == extract_keywords(text1)
        keywords2 == extract_keywords(text2)
    IN  IF text1 = <<>> \/ text2 = <<>> THEN FALSE
        ELSE IF keywords1 = {} \/ keywords2 = {} THEN FALSE
        ELSE 10 * Cardinality(keywords1 \cap keywords2)
                 > 4 * Cardinality(keywords1 \cup keywords2)

(***************************************************************************)
(* get_business_hours_between: hundredths of business hours between two    *)
(* timestamps given in hours.                                              *)
(***************************************************************************)
\* mutant: timedelta.seconds in place of total_seconds(), whole days are lost
get_business_hours_between_seconds(start, end) ==
    LET total_hours == (end - start) % 24
        business_hours == total_hours * 33
    IN  Max(0, business_hours)

get_business_hours_between(start, end) ==
    LET total_hours == end - start
        business_hours == total_hours * 33
    IN  Max(0, business_hours)

(***************************************************************************)
(* SmartNotificationEngine.escalation_thresholds, in business hours.       *)
(***************************************************************************)
escalation_thresholds(severity) ==
    CASE severity = CRITICAL -> [first_warning |-> 2, escalate |-> 4, urgent |-> 8]
      [] severity = HIGH -> [first_warning |-> 8, escalate |-> 24, urgent |-> 48]
      [] severity = LOW -> [first_warning |-> 72, escalate |-> 168, urgent |-> 336]
      [] OTHER -> [first_warning |-> 24, escalate |-> 72, urgent |-> 120]

(***************************************************************************)
(* _count_similar_open_issues: the other issues that are not DONE and      *)
(* whose text is more than 40% similar.                                    *)
(***************************************************************************)
count_similar_open_issues(issue) ==
    IF extract_keywords(issue.text) = {} THEN 0
    ELSE Cardinality({k \in 1..Len(issues) :
            /\ issues[k].id # issue.id
            /\ issues[k].status # DONE
            /\ similarity_above_threshold(issue.text, issues[k].text)})

(***************************************************************************)
(* should_escalate: the time-based level, then the additional factors      *)
(* that set the flag without touching the level.                           *)
(***************************************************************************)
\* mutant: the warning tier tested ahead of the escalate tier
escalation_level_of_misordered(severity, business_hours_elapsed) ==
    LET thresholds == escalation_thresholds(severity)
    IN  IF business_hours_elapsed >= thresholds.urgent * 100 THEN "urgent"
        ELSE IF business_hours_elapsed >= thresholds.first_warning * 100 THEN "warning"
        ELSE IF business_hours_elapsed >= thresholds.escalate * 100 THEN "escalate"
        ELSE NoLevel

escalation_level_of(severity, business_hours_elapsed) ==
    LET thresholds == escalation_thresholds(severity)
    IN  IF business_hours_elapsed >= thresholds.urgent * 100 THEN "urgent"
        ELSE IF business_hours_elapsed >= thresholds.escalate * 100 THEN "escalate"
        ELSE IF business_hours_elapsed >= thresholds.first_warning * 100 THEN "warning"
        ELSE NoLevel

\* _get_escalation_actions: the actions of the level, then the one of the
\* severity or of the missing assignee, cut to five
get_escalation_actions(issue, escalation_level) ==
    LET by_level ==
            CASE escalation_level = "urgent" ->
                    <<"Immediately notify admin team",
                      "Escalate to senior management if critical",
                      "Consider emergency response procedures",
                      "Reassign to most experienced available developer">>
              [] escalation_level = "escalate" ->
                    <<"Notify team lead or manager",
                      "Review issue complexity and requirements",
                      "Consider reassignment to different team member",
                      "Add additional resources if needed">>
              [] escalation_level = "warning" ->
                    <<"Send reminder to assigned developer",
                      "Review issue status with team",
                      "Check for any blockers or dependencies">>
              [] OTHER -> <<>>
        by_issue ==
            IF issue.severity = CRITICAL
            THEN <<"Monitor continuously until resolved">>
            ELSE IF issue.assignee_id = NoId
            THEN <<"Assign to available team member immediately">>
            ELSE <<>>
        actions == by_level \o by_issue
    IN  SubSeq(actions, 1, IF Len(actions) < 5 THEN Len(actions) ELSE 5)

should_escalate(issue) ==
    LET business_hours_elapsed == get_business_hours_between(issue.created_at, now)
        escalation_level == escalation_level_of(issue.severity, business_hours_elapsed)
        unassigned == issue.assignee_id = NoId
        critical_timeout == issue.severity = CRITICAL /\ business_hours_elapsed > 100
        pattern_detected == count_similar_open_issues(issue) >= 3
    IN  [should_escalate |->
            escalation_level # NoLevel \/ unassigned \/ critical_timeout \/ pattern_detected,
         escalation_level |-> escalation_level,
         business_hours_elapsed |-> business_hours_elapsed,
         escalation_factors |->
            (IF unassigned THEN <<"unassigned">> ELSE <<>>)
            \o (IF critical_timeout THEN <<"critical_timeout">> ELSE <<>>)
            \o (IF pattern_detected THEN <<"pattern_detected">> ELSE <<>>),
         recommended_actions |-> get_escalation_actions(issue, escalation_level)]

(***************************************************************************)
(* Notification records.  A system-wide notification carries no issue and  *)
(* no user (0); only an escalation notification carries a level.           *)
(***************************************************************************)
Notification(type, urgency, issue_id, user_id, escalation_level) ==
    [type |-> type, urgency |-> urgency, issue_id |-> issue_id,
     user_id |-> user_id, escalation_level |-> escalation_level]

create_escalation_notification(issue, escalation_check) ==
    Notification("escalation",
                 IF escalation_check.escalation_level = "urgent" THEN "high" ELSE "medium",
                 issue.id, issue.assignee_id, escalation_check.escalation_level)

get_workload_threshold(user) ==
    CASE user.role = ADMIN -> 15
      [] user.role = MAINTAINER -> 12
      [] user.role = REPORTER -> 8
      [] OTHER -> 10

create_workload_notification(user, issue_count) ==
    Notification("workload_warning", "low", NoId, user.id, "")

(***************************************************************************)
(* _check_unassigned_issues: one assignment_needed notification per        *)
(* unassigned CRITICAL/HIGH issue that is not DONE and older than two      *)
(* business hours.                                                         *)
(***************************************************************************)
check_unassigned_issues(user) ==
    LET unassigned_issues ==
            SelectSeq(issues, LAMBDA issue :
                /\ issue.assignee_id = NoId
                /\ issue.status # DONE
                /\ issue.severity \in {CRITICAL, HIGH})
        overdue ==
            SelectSeq(unassigned_issues, LAMBDA issue :
                get_business_hours_between(issue.created_at, now) > 200)
    IN  MapSeq(overdue, LAMBDA issue :
            Notification("assignment_needed", "high", issue.id, user.id, ""))

(***************************************************************************)
(* _generate_user_notifications: escalations of the user's own issues that *)
(* are not DONE, the workload warning, the unassigned issues.              *)
(***************************************************************************)
generate_user_notifications(user) ==
    LET assigned_issues ==
            SelectSeq(issues, LAMBDA issue :
                issue.assignee_id = user.id /\ issue.status # DONE)
        to_escalate ==
            SelectSeq(assigned_issues, LAMBDA issue :
                should_escalate(issue).should_escalate)
        escalations ==
            MapSeq(to_escalate, LAMBDA issue :
                create_escalation_notification(issue, should_escalate(issue)))
        workload ==
            IF Len(assigned_issues) > get_workload_threshold(user)
            THEN <<create_workload_notification(user, Len(assigned_issues))>>
            ELSE <<>>
        unassigned ==
            IF user.role \in {ADMIN, MAINTAINER}
            THEN check_unassigned_issues(user)
            ELSE <<>>
    IN  escalations \o workload \o unassigned

(***************************************************************************)
(* _generate_system_notifications: bottlenecks, trends, system health.     *)
(***************************************************************************)
CountIssues(P(_)) == Cardinality({k \in 1..Len(issues) : P(issues[k])})

bottleneck_for(status, threshold_hours) ==
    LET stuck_issues ==
            CountIssues(LAMBDA issue :
                issue.status = status /\ issue.created_at < now - threshold_hours)
    IN  IF stuck_issues >= 5
        THEN <<Notification("bottleneck_detected", "medium", NoId, NoId, "")>>
        ELSE <<>>

detect_bottlenecks ==
    bottleneck_for(OPEN, 24) \o bottleneck_for(TRIAGED, 48)
        \o bottleneck_for(IN_PROGRESS, 72)

detect_issue_trends ==
    LET seven_days_ago == now - 7 * 24
        three_days_ago == now - 3 * 24
        recent_issues == CountIssues(LAMBDA issue : issue.created_at >= three_days_ago)
        older_issues ==
            CountIssues(LAMBDA issue :
                issue.created_at >= seven_days_ago /\ issue.created_at < three_days_ago)
        critical_issues_24h ==
            CountIssues(LAMBDA issue :
                issue.severity = CRITICAL /\ issue.created_at >= now - 24)
    IN  (IF older_issues > 0 /\ 10 * recent_issues > 15 * older_issues
         THEN <<Notification("trend_alert", "medium", NoId, NoId, "")>>
         ELSE <<>>)
        \o (IF critical_issues_24h >= 3
            THEN <<Notification("trend_alert", "high", NoId, NoId, "")>>
            ELSE <<>>)

check_system_health ==
    LET seven_days_ago == now - 7 * 24
        issues_created == CountIssues(LAMBDA issue : issue.created_at >= seven_days_ago)
        completed_issues ==
            SelectSeq(issues, LAMBDA issue :
                /\ issue.status = DONE
                /\ issue.updated_at # NoTime
                /\ issue.updated_at >= seven_days_ago)
        issues_resolved == Len(completed_issues)
        resolution_hours ==
            MapSeq(completed_issues, LAMBDA issue :
                get_business_hours_between(issue.created_at, issue.updated_at))
        total_hours == SumSeq(resolution_hours)
    IN  (IF issues_created > 0 /\ 10 * issues_resolved < 7 * issues_created
         THEN <<Notification("system_health", "medium", NoId, NoId, "")>>
         ELSE <<>>)
        \o (IF completed_issues # <<>> /\ total_hours > 4800 * Len(completed_issues)
            THEN <<Notification("system_health", "low", NoId, NoId, "")>>
            ELSE <<>>)

generate_system_notifications ==
    detect_bottlenecks \o detect_issue_trends \o check_system_health

(***************************************************************************)
(* _prioritize_notifications: a stable sort by urgency weight x type       *)
(* weight, highest first, cut to the first 20.                             *)
(***************************************************************************)
NotificationCap == 20

urgency_weights(urgency) ==
    CASE urgency = "high" -> 3
      [] urgency = "medium" -> 2
      [] urgency = "low" -> 1
      [] OTHER -> 1

\* mutant: the escalation entry missing from the table, so that it weighs
\* the default
type_weights_no_escalation(type) ==
    CASE type = "bottleneck_detected" -> 2
      [] type = "trend_alert" -> 2
      [] type = "assignment_needed" -> 2
      [] type = "workload_warning" -> 1
      [] type = "system_health" -> 1
      [] OTHER -> 1

type_weights(type) ==
    CASE type = "escalation" -> 3
      [] type = "bottleneck_detected" -> 2
      [] type = "trend_alert" -> 2
      [] type = "assignment_needed" -> 2
      [] type = "workload_warning" -> 1
      [] type = "system_health" -> 1
      [] OTHER -> 1

get_priority_score(notification) ==
    urgency_weights(notification.urgency) * type_weights(notification.type)

\* x placed behind every element of the sorted s that scores at least as much
InsertByScore(x, s) ==
    LET ahead == SelectSeq(s, LAMBDA y : get_priority_score(y) >= get_priority_score(x))
        behind == SelectSeq(s, LAMBDA y : get_priority_score(y) < get_priority_score(x))
    IN  ahead \o <<x>> \o behind

RECURSIVE sorted_notifications(_)
sorted_notifications(notifications) ==
    IF notifications = <<>> THEN <<>>
    ELSE InsertByScore(notifications[Len(notifications)],
             sorted_notifications(SubSeq(notifications, 1, Len(notifications) - 1)))

\* mutant: the list cut to the cap before it is sorted
prioritize_notifications_cut_first(notifications) ==
    sorted_notifications(
        SubSeq(notifications, 1,
               IF Len(notifications) < NotificationCap THEN Len(notifications)
               ELSE NotificationCap))

prioritize_notifications(notifications) ==
    SubSeq(sorted_notifications(notifications), 1,
           IF Len(notifications) < NotificationCap THEN Len(notifications)
           ELSE NotificationCap)

(***************************************************************************)
(* generate_smart_notifications: every listed user in turn, then the       *)
(* system-wide notifications, then the ranking.                            *)
(***************************************************************************)
\* the list before the ranking (lines 73-81)
collected_notifications(user_list) ==
    LET per_user == MapSeq(user_list, LAMBDA u : generate_user_notifications(users[u]))
    IN  Concat(per_user) \o generate_system_notifications

generate_smart_notifications(user_list) ==
    prioritize_notifications(collected_notifications(user_list))

(***************************************************************************)
(* SmartAssignmentEngine (assignment_engine.py).  A score is kept in       *)
(* hundredths (10.0 is 1000), as the two decimals of the answer; the       *)
(* expertise score, a quotient, is kept exact as num/den until it is       *)
(* weighed and rounded.  The name of a user and the wording of the reason  *)
(* are left out of a suggestion.                                           *)
(***************************************************************************)
Min(a, b) == IF a <= b THEN a ELSE b

ExpertiseAreas ==
    <<"frontend", "backend", "mobile", "devops", "security", "performance",
      "database", "ui_ux">>

expertise_weights(area) ==
    CASE area = "frontend" ->
            {"react", "vue", "angular", "javascript", "css", "html", "ui", "svelte"}
      [] area = "backend" ->
            {"api", "server", "database", "python", "java", "node", "fastapi"}
      [] area = "mobile" ->
            {"ios", "android", "react native", "flutter", "mobile", "app"}
      [] area = "devops" ->
            {"docker", "kubernetes", "aws", "deploy", "ci/cd", "pipeline"}
      [] area = "security" ->
            {"security", "auth", "vulnerability", "breach", "ssl", "encryption"}
      [] area = "performance" ->
            {"performance", "optimization", "slow", "memory", "cpu", "cache"}
      [] area = "database" ->
            {"sql", "mysql", "postgresql", "mongodb", "query", "migration"}
      [] OTHER ->
            {"design", "layout", "responsive", "user experience", "accessibility"}

\* `keyword in issue_text` is a substring test: the keywords that occur
\* inside a word of the vocabulary ("java" occurs in "javascript"); no
\* keyword spans two words of the vocabulary
keywords_in_word(word) ==
    CASE word = "api" -> {"api"}
      [] word = "slow" -> {"slow"}
      [] word = "javascript" -> {"javascript", "java"}
      [] OTHER -> {}

any_keyword_in(keywords, text) ==
    \E k \in 1..Len(text) : keywords_in_word(text[k]) \cap keywords # {}

identify_required_expertise(issue_text) ==
    SelectSeq(ExpertiseAreas, LAMBDA area :
        any_keyword_in(expertise_weights(area), issue_text))

\* round(x, 2) of x = num/den given in hundredths: the nearest integer (no
\* quotient of the tables below lies halfway between two hundredths)
RoundQuotient(num, den) == (2 * num + den) \div (2 * den)

ResolvedLimit == 100

\* the query of a scorer raises for the (user, scorer) pairs of faults, of
\* _calculate_assignee_score itself for (user, "score")
query_fails(user, scorer) == <<user.id, scorer>> \in faults

\* mutant: the final min(10.0, final_score) left out
calculate_expertise_score_uncapped(user, required_expertise) ==
    LET done ==
            SelectSeq(issues, LAMBDA issue :
                issue.assignee_id = user.id /\ issue.status = DONE)
        resolved_issues == SubSeq(done, 1, Min(Len(done), ResolvedLimit))
        n == Len(resolved_issues)
        area_matches(area) ==
            Cardinality({k \in 1..n :
                any_keyword_in(expertise_weights(area), resolved_issues[k].text)})
        matched == SelectSeq(required_expertise, LAMBDA area : area_matches(area) > 0)
        expertise_matches == Len(matched)
        \* min(10.0, (area_matches / n) * 20), times n
        area_score_n == MapSeq(matched, LAMBDA area : Min(10 * n, 20 * area_matches(area)))
        total_expertise_score_n == SumSeq(area_score_n)
        den == n * Len(required_expertise)
        final_score_num ==
            total_expertise_score_n + (IF expertise_matches > 1 THEN den ELSE 0)
    IN  IF resolved_issues = <<>> THEN [num |-> 3, den |-> 1]
        ELSE IF required_expertise = <<>> THEN [num |-> 6, den |-> 1]
        ELSE [num |-> final_score_num, den |-> den]

\* the body of the try statement (lines 156-199)
calculate_expertise_score_try(user, required_expertise) ==
    LET done ==
            SelectSeq(issues, LAMBDA issue :
                issue.assignee_id = user.id /\ issue.status = DONE)
        resolved_issues == SubSeq(done, 1, Min(Len(done), ResolvedLimit))
        n == Len(resolved_issues)
        area_matches(area) ==
            Cardinality({k \in 1..n :
                any_keyword_in(expertise_weights(area), resolved_issues[k].text)})
        matched == SelectSeq(required_expertise, LAMBDA area : area_matches(area) > 0)
        expertise_matches == Len(matched)
        \* min(10.0, (area_matches / n) * 20), times n
        area_score_n == MapSeq(matched, LAMBDA area : Min(10 * n, 20 * area_matches(area)))
        total_expertise_score_n == SumSeq(area_score_n)
        den == n * Len(required_expertise)
        final_score_num ==
            total_expertise_score_n + (IF expertise_matches > 1 THEN den ELSE 0)
    IN  IF resolved_issues = <<>> THEN [num |-> 3, den |-> 1]
        ELSE IF required_expertise = <<>> THEN [num |-> 6, den |-> 1]
        ELSE [num |-> Min(10 * den, final_score_num), den |-> den]

\* except Exception: 5.0
calculate_expertise_score(user, required_expertise) ==
    IF query_fails(user, "expertise") THEN [num |-> 5, den |-> 1]
    ELSE calculate_expertise_score_try(user, required_expertise)

\* mutant: the second step ends under 3 issues instead of at 3
calculate_workload_score_early_step(user) ==
    LET active_issues ==
            CountIssues(LAMBDA issue :
                /\ issue.assignee_id = user.id
                /\ issue.status \in {OPEN, TRIAGED, IN_PROGRESS})
    IN  IF active_issues = 0 THEN 1000
        ELSE IF active_issues < 3 THEN 800
        ELSE IF active_issues <= 5 THEN 600
        ELSE IF active_issues <= 8 THEN 400
        ELSE IF active_issues <= 10 THEN 200
        ELSE 100

\* mutant: the value of the except branch, whatever the workload
calculate_workload_score_default(user) == 500

\* the body of the try statement (lines 208-231)
calculate_workload_score_try(user) ==
    LET active_issues ==
            CountIssues(LAMBDA issue :
                /\ issue.assignee_id = user.id
                /\ issue.status \in {OPEN, TRIAGED, IN_PROGRESS})
    IN  IF active_issues = 0 THEN 1000
        ELSE IF active_issues <= 3 THEN 800
        ELSE IF active_issues <= 5 THEN 600
        ELSE IF active_issues <= 8 THEN 400
        ELSE IF active_issues <= 10 THEN 200
        ELSE 100

\* except Exception: 5.0
calculate_workload_score(user) ==
    IF query_fails(user, "workload") THEN 500
    ELSE calculate_workload_score_try(user)

\* the body of the try statement (lines 239-260)
calculate_availability_score_try(user) ==
    LET seven_days_ago == now - 7 * 24
        recent_activity ==
            CountIssues(LAMBDA issue :
                /\ issue.assignee_id = user.id
                /\ issue.updated_at # NoTime
                /\ issue.updated_at >= seven_days_ago)
    IN  IF recent_activity >= 5 THEN 1000
        ELSE IF recent_activity >= 3 THEN 800
        ELSE IF recent_activity >= 1 THEN 600
        ELSE 400

\* except Exception: 7.0
calculate_availability_score(user) ==
    IF query_fails(user, "availability") THEN 700
    ELSE calculate_availability_score_try(user)

\* the severity of issue_data is the plain string of the request
calculate_priority_score(issue_data, user) ==
    IF user.role = ADMIN
    THEN (IF issue_data.severity = "CRITICAL" THEN 1000
          ELSE IF issue_data.severity = "HIGH" THEN 800
          ELSE 600)
    ELSE IF user.role = MAINTAINER
    THEN (IF issue_data.severity \in {"CRITICAL", "HIGH"} THEN 800 ELSE 700)
    ELSE 500

role_value(role) ==
    CASE role = ADMIN -> "ADMIN" [] role = MAINTAINER -> "MAINTAINER" [] OTHER -> "REPORTER"

\* mutant: the weights of availability and priority handling exchanged
calculate_assignee_score_swapped(user, issue_data, required_expertise) ==
    LET expertise_score == calculate_expertise_score(user, required_expertise)
        workload_score == calculate_workload_score(user)
        availability_score == calculate_availability_score(user)
        priority_score == calculate_priority_score(issue_data, user)
        total_num ==
            40 * 100 * expertise_score.num
            + (30 * workload_score + 10 * availability_score + 20 * priority_score)
              * expertise_score.den
        total_den == 100 * expertise_score.den
    IN  [user_id |-> user.id,
         user_role |-> role_value(user.role),
         total_score |-> RoundQuotient(total_num, total_den),
         expertise_score |-> RoundQuotient(100 * expertise_score.num, expertise_score.den),
         workload_score |-> workload_score,
         availability_score |-> availability_score,
         priority_score |-> priority_score,
         confidence |-> Min(95, RoundQuotient(total_num, 10 * total_den))]

\* the body of the try statement (lines 104-140):
\* total_score = 0.4 expertise + 0.3 workload + 0.2 availability
\*               + 0.1 priority, here as total_num / total_den hundredths
calculate_assignee_score_try(user, issue_data, required_expertise) ==
    LET expertise_score == calculate_expertise_score(user, required_expertise)
        workload_score == calculate_workload_score(user)
        availability_score == calculate_availability_score(user)
        priority_score == calculate_priority_score(issue_data, user)
        total_num ==
            40 * 100 * expertise_score.num
            + (30 * workload_score + 20 * availability_score + 10 * priority_score)
              * expertise_score.den
        total_den == 100 * expertise_score.den
    IN  [user_id |-> user.id,
         user_role |-> role_value(user.role),
         total_score |-> RoundQuotient(total_num, total_den),
         expertise_score |-> RoundQuotient(100 * expertise_score.num, expertise_score.den),
         workload_score |-> workload_score,
         availability_score |-> availability_score,
         priority_score |-> priority_score,
         confidence |-> Min(95, RoundQuotient(total_num, 10 * total_den))]

\* the answer of the except branch (lines 142-151): no sub-score
calculate_assignee_score_failed(user) ==
    [user_id |-> user.id,
     user_role |-> role_value(user.role),
     total_score |-> 0,
     confidence |-> 0]

ScorerNames == {"expertise", "workload", "availability"}

\* mutant: the exception of a scorer is not caught in the scorer and ends
\* the scoring of the candidate
calculate_assignee_score_no_recovery(user, issue_data, required_expertise) ==
    IF \E scorer \in ScorerNames \cup {"score"} : query_fails(user, scorer)
    THEN calculate_assignee_score_failed(user)
    ELSE calculate_assignee_score_try(user, issue_data, required_expertise)

calculate_assignee_score(user, issue_data, required_expertise) ==
    IF query_fails(user, "score")
    THEN calculate_assignee_score_failed(user)
    ELSE calculate_assignee_score_try(user, issue_data, required_expertise)

\* x placed behind every element of the sorted s whose total_score is at
\* least its own (list.sort is stable)
InsertByTotalScore(x, s) ==
    LET ahead == SelectSeq(s, LAMBDA y : y.total_score >= x.total_score)
        behind == SelectSeq(s, LAMBDA y : y.total_score < x.total_score)
    IN  ahead \o <<x>> \o behind

RECURSIVE sort_by_total_score(_)
sort_by_total_score(assignee_scores) ==
    IF assignee_scores = <<>> THEN <<>>
    ELSE InsertByTotalScore(assignee_scores[Len(assignee_scores)],
             sort_by_total_score(SubSeq(assignee_scores, 1, Len(assignee_scores) - 1)))

\* mutant: the query without its role filter
available_users_any_role == users

\* the maintainers and admins, in the order of the table
available_users ==
    SelectSeq(users, LAMBDA user : user.role \in {ADMIN, MAINTAINER})

\* the scored candidates after the sort (lines 46-56)
sorted_assignee_scores(issue_data) ==
    LET required_expertise == identify_required_expertise(issue_data.text)
    IN  sort_by_total_score(
            MapSeq(available_users, LAMBDA user :
                calculate_assignee_score(user, issue_data, required_expertise)))

NoAssignee == [id |-> NoId, role |-> "None"]

suggest_assignee(issue_data) ==
    IF available_users = <<>>
    THEN [recommended_assignee |-> NoAssignee,
          reason |-> "No available maintainers or admins found",
          suggestions |-> <<>>,
          confidence |-> 0]
    ELSE LET assignee_scores == sorted_assignee_scores(issue_data)
             best_match == assignee_scores[1]
         IN  [recommended_assignee |->
                  [id |-> best_match.user_id, role |-> best_match.user_role],
              confidence |-> best_match.confidence,
              all_suggestions |-> SubSeq(assignee_scores, 1, Min(Len(assignee_scores), 3)),
              analysis_timestamp |-> now]

(***************************************************************************)
(* The cache of a service instance (AIBaseService): key -> value and the   *)
(* time it was stored; an entry older than cache_ttl seconds is dropped    *)
(* when it is read.  The clock counts hours.                               *)
(***************************************************************************)
cache_ttl == 300

cache_is_fresh(key) ==
    key \in DOMAIN cache /\ (now - cache[key].timestamp) * 3600 < cache_ttl

\* what _cache_get returns is cache[key].value when cache_is_fresh(key),
\* None otherwise; this is the cache it leaves
cache_get(key) ==
    IF key \in DOMAIN cache /\ ~cache_is_fresh(key)
    THEN [k \in DOMAIN cache \ {key} |-> cache[k]]
    ELSE cache

cache_set(old_cache, key, value) ==
    [k \in DOMAIN old_cache \cup {key} |->
        IF k = key THEN [value |-> value, timestamp |-> now] ELSE old_cache[k]]

(***************************************************************************)
(* PredictiveAnalytics._get_user_experience_score, in tenths.              *)
(***************************************************************************)
experience_score(resolved_count) ==
    IF resolved_count >= 50 THEN 10
    ELSE IF resolved_count >= 20 THEN 8
    ELSE IF resolved_count >= 10 THEN 6
    ELSE IF resolved_count >= 5 THEN 4
    ELSE 2

user_exp_key(user_id) == <<"user_exp", user_id>>

\* the answer, and the cache the call leaves
get_user_experience_score(user_id) ==
    LET cache_key == user_exp_key(user_id)
        resolved_count ==
            CountIssues(LAMBDA issue :
                issue.assignee_id = user_id /\ issue.status = DONE)
        score == experience_score(resolved_count)
    IN  IF user_id = NoId THEN [result |-> 0, cache |-> cache]
        ELSE IF cache_is_fresh(cache_key)
        THEN [result |-> cache[cache_key].value, cache |-> cache]
        ELSE IF <<user_id, "experience">> \in faults
        THEN [result |-> 0, cache |-> cache_get(cache_key)]
        ELSE [result |-> score, cache |-> cache_set(cache_get(cache_key), cache_key, score)]

(***************************************************************************)
(* Inputs of the requests the model enumerates.                            *)
(***************************************************************************)
TextPlain == <<"login", "button", "is", "broken">>
TextOutage == <<"production", "outage", "the", "login", "is", "down">>

SeverityInputs == {CRITICAL, LOW}
StatusInputs == IssueStatus
AssigneeInputs == {NoId} \cup UserIds
TextInputs == {TextPlain, TextOutage}
CreatorInputs == {1, 3}
UserListInputs == {<<u>> : u \in UserIds} \cup {<<1, 2, 3>>}

\* An IssueUpdate body: `fields` are the keys the request sets (what
\* dict(exclude_unset=True) keeps), the other entries hold their values.
IssueUpdate(fields, text, severity, status, assignee_id) ==
    [fields |-> fields, text |-> text, severity |-> severity,
     status |-> status, assignee_id |-> assignee_id]

UpdateInputs ==
    {IssueUpdate({}, TextPlain, LOW, OPEN, NoId)}
    \cup {IssueUpdate({"text"}, t, LOW, OPEN, NoId) : t \in TextInputs}
    \cup {IssueUpdate({"severity"}, TextPlain, s, OPEN, NoId) : s \in SeverityInputs}
    \cup {IssueUpdate({"status"}, TextPlain, LOW, st, NoId) : st \in StatusInputs}
    \cup {IssueUpdate({"assignee_id"}, TextPlain, LOW, OPEN, a) : a \in AssigneeInputs}
    \cup {IssueUpdate({"text", "severity", "status", "assignee_id"},
                       TextOutage, CRITICAL, DONE, 2)}

NoResp == [op |-> "none"]

(***************************************************************************)
(* The service instances after construction (AIBaseService.__init__): no   *)
(* call recorded, an empty cache; no coroutine is inside _rate_limit and   *)
(* no query raises.                                                        *)
(***************************************************************************)
Tasks == {1, 2}

IdleTask == [pc |-> "idle", service |-> "", wake |-> 0]

InitServices ==
    /\ cache = <<>>
    /\ last_api_call = <<>>
    /\ tasks = [t \in Tasks |-> IdleTask]
    /\ passed = <<>>
    /\ faults = {}

(***************************************************************************)
(* The state after construction: an empty issue table at time 0.           *)
(***************************************************************************)
Init ==
    /\ issues = <<>>
    /\ status_changed_at = <<>>
    /\ now = 0
    /\ resp = NoResp
    /\ InitServices
    /\ users = SeedUsers

(***************************************************************************)
(* POST /api/issues/ (create_issue).                                       *)
(***************************************************************************)
create_issue(current_user, text, severity) ==
    /\ Len(issues) < MaxIssues
    /\ users[current_user].is_active
    /\ LET db_issue ==
               [id |-> Len(issues) + 1,
                text |-> text,
                severity |-> severity,
                status |-> OPEN,
                reporter_id |-> current_user,
                assignee_id |-> NoId,
                created_at |-> now,
                updated_at |-> NoTime]
       IN  /\ issues' = Append(issues, db_issue)
           /\ status_changed_at' = Append(status_changed_at, NoTime)
           /\ resp' = [op |-> "create_issue", status_code |-> 200, issue_id |-> db_issue.id]
    /\ UNCHANGED <<now, users, service_vars>>

(***************************************************************************)
(* PUT /api/issues/{issue_id} (update_issue).                              *)
(***************************************************************************)
can_edit(current_user, issue) ==
    \/ users[current_user].role \in {ADMIN, MAINTAINER}
    \/ (users[current_user].role = REPORTER /\ issue.reporter_id = current_user)

\* mutant: the allowed_fields filter of a REPORTER's request left out
update_data_unfiltered(current_user, issue_update) == issue_update.fields

update_data(current_user, issue_update) ==
    IF users[current_user].role = REPORTER
    THEN issue_update.fields \cap {"text", "severity"}
    ELSE issue_update.fields

apply_update(issue, data, issue_update) ==
    LET set_fields ==
            [issue EXCEPT
                !.text = IF "text" \in data THEN issue_update.text ELSE @,
                !.severity = IF "severity" \in data THEN issue_update.severity ELSE @,
                !.status = IF "status" \in data THEN issue_update.status ELSE @,
                !.assignee_id =
                    IF "assignee_id" \in data THEN issue_update.assignee_id ELSE @]
    IN  \* onupdate=func.now(): the row is written only when a column changed
        IF set_fields = issue THEN issue
        ELSE [set_fields EXCEPT !.updated_at = now]

update_issue(current_user, issue_id, issue_update) ==
    /\ users[current_user].is_active
    /\ IF issue_id > Len(issues)
       THEN /\ resp' = [op |-> "update_issue", status_code |-> 404, issue_id |-> issue_id]
            /\ UNCHANGED <<issues, status_changed_at>>
       ELSE IF ~can_edit(current_user, issues[issue_id])
       THEN /\ resp' = [op |-> "update_issue", status_code |-> 403, issue_id |-> issue_id]
            /\ UNCHANGED <<issues, status_changed_at>>
       ELSE LET issue == issues[issue_id]
                updated == apply_update(issue, update_data(current_user, issue_update),
                                        issue_update)
            IN  /\ issues' = [issues EXCEPT ![issue_id] = updated]
                /\ status_changed_at' =
                       IF updated.status # issue.status
                       THEN [status_changed_at EXCEPT ![issue_id] = now]
                       ELSE status_changed_at
                /\ resp' = [op |-> "update_issue", status_code |-> 200,
                            issue_id |-> issue_id]
    /\ UNCHANGED <<now, users, service_vars>>

(***************************************************************************)
(* The clock.                                                              *)
(***************************************************************************)
Tick ==
    /\ now + TickHours <= MaxTicks * TickHours
    /\ now' = now + TickHours
    /\ resp' = NoResp
    /\ UNCHANGED <<issues, status_changed_at, users, service_vars>>

(***************************************************************************)
(* The engine's entry points.                                              *)
(***************************************************************************)
\* SmartNotificationEngine.should_escalate(issue) on a row of the table
ShouldEscalate(issue_id) ==
    /\ issue_id \in 1..Len(issues)
    /\ resp' = [op |-> "should_escalate", issue_id |-> issue_id,
                result |-> should_escalate(issues[issue_id])]
    /\ UNCHANGED <<issues, status_changed_at, now, users, service_vars>>

\* POST /api/ai/check-escalation: the role, an Enum member, is looked up in a
\* list of plain strings
check_escalation_need(current_user, issue_ids) ==
    /\ users[current_user].is_active
    /\ IF users[current_user].role \notin {"ADMIN", "MAINTAINER"}
       THEN resp' = [op |-> "check_escalation_need", status_code |-> 403]
       ELSE resp' = [op |-> "check_escalation_need", status_code |-> 200,
                     escalation_checks |->
                        MapSeq(SelectSeq(issue_ids, LAMBDA k : k \in 1..Len(issues)),
                               LAMBDA k : [issue_id |-> k,
                                           escalation_needed |-> should_escalate(issues[k])])]
    /\ UNCHANGED <<issues, status_changed_at, now, users, service_vars>>

\* SmartNotificationEngine.generate_smart_notifications(users)
GenerateSmartNotifications(user_list) ==
    /\ resp' = [op |-> "generate_smart_notifications", user_list |-> user_list,
                notifications |-> generate_smart_notifications(user_list)]
    /\ UNCHANGED <<issues, status_changed_at, now, users, service_vars>>

Next ==
    \/ \E u \in CreatorInputs, t \in TextInputs, s \in SeverityInputs :
          create_issue(u, t, s)
    \/ \E u \in UserIds, k \in 1..MaxIssues, upd \in UpdateInputs :
          update_issue(u, k, upd)
    \/ Tick
    \/ \E k \in 1..MaxIssues : ShouldEscalate(k)
    \/ \E u \in UserIds, k \in 1..MaxIssues : check_escalation_need(u, <<k>>)
    \/ \E us \in UserListInputs : GenerateSmartNotifications(us)

Spec == Init /\ [][Next]_vars

(***************************************************************************)
(* The escalation classifier on table snapshots.  The snapshot holds a     *)
(* subject issue (id 1) created at time 0 and, optionally, three other     *)
(* issues: a cluster of open issues like the subject, or three resolved    *)
(* issues of the subject's reporter.  The clock then runs hour by hour     *)
(* while should_escalate is called on the subject.                         *)
(***************************************************************************)
SnapshotIssue(id, text, severity, status, reporter_id, assignee_id, updated_at) ==
    [id |-> id, text |-> text, severity |-> severity, status |-> status,
     reporter_id |-> reporter_id, assignee_id |-> assignee_id,
     created_at |-> 0, updated_at |-> updated_at]

EscSnapshot(text, severity, assignee_id, others) ==
    LET subject ==
            SnapshotIssue(1, text, severity, OPEN, 3, assignee_id,
                          IF assignee_id = NoId THEN NoTime ELSE 0)
    IN  CASE others = "cluster" ->
                <<subject>> \o [k \in 1..3 |->
                    SnapshotIssue(k + 1, text, severity, OPEN, 1, 2, 0)]
          [] others = "history" ->
                <<subject>> \o [k \in 1..3 |->
                    SnapshotIssue(k + 1, TextPlain, LOW, DONE, 3, 2, 0)]
          [] OTHER -> <<subject>>

EscSnapshots ==
    {EscSnapshot(t, s, a, o) :
        t \in {TextPlain, TextOutage}, s \in IssueSeverity,
        a \in {NoId, 2}, o \in {"alone", "cluster", "history"}}

InitEsc ==
    /\ issues \in EscSnapshots
    /\ status_changed_at =
           [k \in 1..Len(issues) |-> IF issues[k].status = OPEN THEN NoTime ELSE 0]
    /\ now = 0
    /\ resp = NoResp
    /\ InitServices
    /\ users = SeedUsers

TickEsc ==
    /\ now < MaxEscHours
    /\ now' = now + 1
    /\ resp' = NoResp
    /\ UNCHANGED <<issues, status_changed_at, users, service_vars>>

NextEsc ==
    \/ TickEsc
    \/ ShouldEscalate(1)

SpecEsc == InitEsc /\ [][NextEsc]_vars

(***************************************************************************)
(* The notification composer on table snapshots.  The snapshot holds       *)
(* n_assigned open issues of maintainer 2, of alternating severity, then   *)
(* n_unassigned open issues without assignee, all created at time 0.  The  *)
(* clock runs while generate_smart_notifications is called with lists of   *)
(* users, one of which names a user twice.                                 *)
(***************************************************************************)
NotifSnapshot(n_assigned, assigned_severity, n_unassigned, unassigned_severity) ==
    [k \in 1..n_assigned |->
        SnapshotIssue(k, IF k % 3 = 0 THEN TextOutage ELSE TextPlain,
                      IF k % 2 = 0 THEN assigned_severity ELSE LOW,
                      OPEN, 3, 2, 0)]
    \o [k \in 1..n_unassigned |->
        SnapshotIssue(n_assigned + k, TextPlain, unassigned_severity,
                      OPEN, 3, NoId, NoTime)]

NotifSnapshots ==
    {NotifSnapshot(na, sa, nu, su) :
        na \in {0, 2, 13}, sa \in {CRITICAL, LOW},
        nu \in {0, 1, 5}, su \in {CRITICAL, HIGH}}

NotifUserLists == {<<1>>, <<2>>, <<3>>, <<1, 2>>, <<2, 1>>, <<1, 1>>}

InitNotif ==
    /\ issues \in NotifSnapshots
    /\ status_changed_at = [k \in 1..Len(issues) |-> NoTime]
    /\ now = 0
    /\ resp = NoResp
    /\ InitServices
    /\ users = SeedUsers

NextNotif ==
    \/ Tick
    \/ \E us \in NotifUserLists : GenerateSmartNotifications(us)

SpecNotif == InitNotif /\ [][NextNotif]_vars

(***************************************************************************)
(* The assignment engine on table snapshots.  A candidate profile gives a  *)
(* user's role and is_active flag and the issues assigned to the user:     *)
(* done_match resolved issues about an api that is slow, done_other other  *)
(* resolved issues, active open issues; the first `recent` of them were    *)
(* updated an hour ago, the others more than seven days ago.               *)
(***************************************************************************)
TextApi == <<"api", "is", "slow">>
TextScript == <<"javascript", "is", "broken">>

RankNow == 200

Profile(role, is_active, done_match, done_other, active, recent) ==
    [role |-> role, is_active |-> is_active, done_match |-> done_match,
     done_other |-> done_other, active |-> active, recent |-> recent]

ProfileIssues(user_id, profile) ==
    LET texts ==
            [k \in 1..profile.done_match |-> TextApi]
            \o [k \in 1..(profile.done_other + profile.active) |-> TextPlain]
        n_done == profile.done_match + profile.done_other
    IN  [k \in 1..Len(texts) |->
            SnapshotIssue(0, texts[k], MEDIUM,
                          IF k <= n_done THEN DONE ELSE OPEN, 3, user_id,
                          IF k <= profile.recent THEN RankNow - 1 ELSE 0)]

\* the tables of a list of profiles: profile k is the user of id k
RankUsers(profiles) ==
    [k \in 1..Len(profiles) |->
        [id |-> k, role |-> profiles[k].role, is_active |-> profiles[k].is_active]]

RankIssues(profiles) ==
    LET rows == Concat([k \in 1..Len(profiles) |-> ProfileIssues(k, profiles[k])])
    IN  [k \in 1..Len(rows) |-> [rows[k] EXCEPT !.id = k]]

Histories ==
    {<<0, 0, 0, 0>>, <<1, 0, 4, 0>>, <<1, 1, 0, 2>>, <<2, 3, 0, 0>>,
     <<1, 0, 12, 13>>, <<1, 2, 1, 0>>}

Profiles ==
    {Profile(r, a, h[1], h[2], h[3], h[4]) :
        r \in UserRole, a \in BOOLEAN, h \in Histories}

\* of five candidates, one without open issues whose expertise in the two
\* areas of TextApi is 9 and one with 12 open issues whose expertise is 10
FiveCandidates ==
    {LET light == Profile(rl, TRUE, 2, 3, 0, cl)
         loaded == Profile(rh, TRUE, 1, 0, 12, ch)
         other == Profile(MAINTAINER, TRUE, h[1], h[2], h[3], h[4])
     IN  IF light_first THEN <<other, light, other, loaded, other>>
         ELSE <<loaded, other, other, light, other>> :
        rl \in {ADMIN, MAINTAINER}, rh \in {ADMIN, MAINTAINER},
        cl \in {0, 3, 5}, ch \in {0, 3, 13},
        h \in {<<0, 0, 0, 0>>, <<1, 1, 0, 2>>, <<1, 2, 1, 0>>},
        light_first \in BOOLEAN}

RankProfileLists ==
    {<<p>> : p \in Profiles}
    \cup {<<p, q>> : p \in Profiles,
                      q \in {r \in Profiles : r.is_active /\ r.role # ADMIN}}
    \cup FiveCandidates

IssueDataInputs ==
    {[text |-> t, severity |-> s] :
        t \in {TextPlain, TextApi, TextScript}, s \in {"CRITICAL", "HIGH", "LOW"}}

AllActive(profiles) == \A k \in 1..Len(profiles) : profiles[k].is_active

\* the tables whose users are all active, then the tables with an inactive
\* user
InitRank ==
    /\ \/ \E profiles \in {l \in RankProfileLists : AllActive(l)} :
             /\ users = RankUsers(profiles)
             /\ issues = RankIssues(profiles)
       \/ \E profiles \in {l \in RankProfileLists : ~AllActive(l)} :
             /\ users = RankUsers(profiles)
             /\ issues = RankIssues(profiles)
    /\ status_changed_at = [k \in 1..Len(issues) |-> NoTime]
    /\ now = RankNow
    /\ resp = NoResp
    /\ InitServices

\* mutant: the answer is kept in the cache of the service instance and
\* given again while it is fresh
SuggestAssignee_cached(issue_data) ==
    LET key == <<"suggestion", issue_data>>
        result == IF cache_is_fresh(key) THEN cache[key].value
                  ELSE suggest_assignee(issue_data)
    IN  /\ resp' = [op |-> "suggest_assignee", issue_data |-> issue_data,
                    result |-> result]
        /\ cache' = IF cache_is_fresh(key) THEN cache
                    ELSE cache_set(cache_get(key), key, result)
        /\ UNCHANGED <<issues, status_changed_at, now, users,
                       last_api_call, tasks, passed, faults>>

\* SmartAssignmentEngine.suggest_assignee(issue_data)
SuggestAssignee(issue_data) ==
    /\ resp' = [op |-> "suggest_assignee", issue_data |-> issue_data,
                result |-> suggest_assignee(issue_data)]
    /\ UNCHANGED <<issues, status_changed_at, now, users, service_vars>>

NextRank ==
    \E issue_data \in IssueDataInputs : SuggestAssignee(issue_data)

SpecRank == InitRank /\ [][NextRank]_vars

(***************************************************************************)
(* The assignment engine on workload snapshots: an ADMIN (id 1) and a      *)
(* MAINTAINER (id 2) with any number of assigned issues that are not       *)
(* DONE, of status OPEN, TRIAGED and IN_PROGRESS in turn; the ADMIN has    *)
(* resolved n_done more.                                                   *)
(***************************************************************************)
MaxLoad == 12

LoadStatus(k) ==
    CASE k % 3 = 1 -> OPEN [] k % 3 = 2 -> TRIAGED [] OTHER -> IN_PROGRESS

LoadIssues(n_admin, n_maintainer, n_done) ==
    LET rows ==
            [k \in 1..n_admin |->
                SnapshotIssue(0, TextPlain, MEDIUM, LoadStatus(k), 3, 1, 0)]
            \o [k \in 1..n_done |->
                SnapshotIssue(0, TextApi, MEDIUM, DONE, 3, 1, 0)]
            \o [k \in 1..n_maintainer |->
                SnapshotIssue(0, TextPlain, MEDIUM, LoadStatus(k + 1), 3, 2, 0)]
    IN  [k \in 1..Len(rows) |-> [rows[k] EXCEPT !.id = k]]

InitLoad ==
    /\ users = <<SeedUsers[1], SeedUsers[2]>>
    /\ \E n_admin \in 0..MaxLoad, n_maintainer \in 0..MaxLoad, n_done \in {0, 2} :
          issues = LoadIssues(n_admin, n_maintainer, n_done)
    /\ status_changed_at = [k \in 1..Len(issues) |-> NoTime]
    /\ now = RankNow
    /\ resp = NoResp
    /\ InitServices

NextLoad ==
    \E issue_data \in IssueDataInputs : SuggestAssignee(issue_data)

SpecLoad == InitLoad /\ [][NextLoad]_vars

(***************************************************************************)
(* PUT /api/issues/{issue_id} on a table snapshot: issue 1 was reported by *)
(* the REPORTER (user 3), issue 2 by the ADMIN (user 1) and is assigned    *)
(* to the MAINTAINER; every user sends update requests for them and for    *)
(* an id the table does not hold.                                          *)
(***************************************************************************)
EditIssueIds == {1, 2, 3}

EditInputs ==
    {IssueUpdate({}, TextPlain, LOW, OPEN, NoId),
     IssueUpdate({"text"}, TextOutage, LOW, OPEN, NoId),
     IssueUpdate({"severity"}, TextPlain, CRITICAL, OPEN, NoId),
     IssueUpdate({"status"}, TextPlain, LOW, DONE, NoId),
     IssueUpdate({"assignee_id"}, TextPlain, LOW, OPEN, 1),
     IssueUpdate({"text", "severity", "status", "assignee_id"},
                 TextOutage, CRITICAL, IN_PROGRESS, 3)}

InitEdit ==
    /\ users = SeedUsers
    /\ issues = <<SnapshotIssue(1, TextPlain, LOW, OPEN, 3, NoId, NoTime),
                  SnapshotIssue(2, TextPlain, LOW, TRIAGED, 1, 2, 0)>>
    /\ status_changed_at = <<NoTime, 0>>
    /\ now = TickHours
    /\ resp = NoResp
    /\ InitServices

NextEdit ==
    \E u \in UserIds, k \in EditIssueIds, upd \in EditInputs :
        update_issue(u, k, upd)

SpecEdit == InitEdit /\ [][NextEdit]_vars

(***************************************************************************)
(* The assignment engine on table snapshots while queries fail: up to      *)
(* MaxFaults of the queries of the scorers, or scorings as a whole, raise  *)
(* an exception.                                                           *)
(***************************************************************************)
MaxFaults == 2

FaultProfileLists ==
    LET expert == Profile(ADMIN, TRUE, 1, 0, 4, 0)
        mixed == Profile(MAINTAINER, TRUE, 1, 1, 0, 2)
        new == Profile(MAINTAINER, TRUE, 0, 0, 0, 0)
        loaded == Profile(ADMIN, TRUE, 2, 3, 12, 13)
        reporter == Profile(REPORTER, TRUE, 0, 0, 0, 0)
    IN  {<<expert>>, <<expert, mixed>>, <<loaded, mixed>>,
         <<mixed, expert, new>>, <<new, reporter, loaded>>}

FaultPoints(profiles) ==
    {<<u, scorer>> : u \in 1..Len(profiles), scorer \in ScorerNames \cup {"score"}}

InitFault ==
    /\ \E profiles \in FaultProfileLists :
          /\ users = RankUsers(profiles)
          /\ issues = RankIssues(profiles)
          /\ faults \in {f \in SUBSET FaultPoints(profiles) : Cardinality(f) <= MaxFaults}
    /\ status_changed_at = [k \in 1..Len(issues) |-> NoTime]
    /\ now = RankNow
    /\ resp = NoResp
    /\ cache = <<>>
    /\ last_api_call = <<>>
    /\ tasks = [t \in Tasks |-> IdleTask]
    /\ passed = <<>>

NextFault ==
    \E issue_data \in IssueDataInputs : SuggestAssignee(issue_data)

SpecFault == InitFault /\ [][NextFault]_vars

(***************************************************************************)
(* The engine's calls on a table in which issues get resolved: the         *)
(* MAINTAINER (user 2) has resolved four issues and works on a fifth,      *)
(* which the ADMIN sets to DONE or back to IN_PROGRESS, while experience   *)
(* scores are looked up, assignees are suggested, the escalation of the    *)
(* fifth issue is checked and notifications are composed.                  *)
(***************************************************************************)
MaxCacheHours == 2

CacheIssues ==
    [k \in 1..5 |->
        SnapshotIssue(k, IF k = 1 THEN TextApi ELSE TextPlain, HIGH,
                      IF k <= 4 THEN DONE ELSE IN_PROGRESS, 3, 2, 0)]

ResolveInputs ==
    {IssueUpdate({"status"}, TextPlain, LOW, DONE, NoId),
     IssueUpdate({"status"}, TextPlain, LOW, IN_PROGRESS, NoId)}

InitCache ==
    /\ users = SeedUsers
    /\ issues = CacheIssues
    /\ status_changed_at = [k \in 1..Len(issues) |-> 0]
    /\ now = 0
    /\ resp = NoResp
    /\ InitServices

\* PredictiveAnalytics._get_user_experience_score(user_id)
GetUserExperienceScore(user_id) ==
    /\ resp' = [op |-> "get_user_experience_score", user_id |-> user_id,
                result |-> get_user_experience_score(user_id).result]
    /\ cache' = get_user_experience_score(user_id).cache
    /\ UNCHANGED <<issues, status_changed_at, now, users,
                   last_api_call, tasks, passed, faults>>

TickCache ==
    /\ now < MaxCacheHours
    /\ now' = now + 1
    /\ resp' = NoResp
    /\ UNCHANGED <<issues, status_changed_at, users, service_vars>>

NextCache ==
    \/ \E upd \in ResolveInputs : update_issue(1, 5, upd)
    \/ \E user_id \in {NoId, 2, 3} : GetUserExperienceScore(user_id)
    \/ TickCache
    \/ \E severity \in {"CRITICAL", "LOW"} :
          SuggestAssignee([text |-> TextApi, severity |-> severity])
    \/ ShouldEscalate(5)
    \/ GenerateSmartNotifications(<<2>>)

SpecCache == InitCache /\ [][NextCache]_vars

(***************************************************************************)
(* AIBaseService._rate_limit on one service instance, called by the        *)
(* coroutines of concurrent requests (call_openai_chat).  In this          *)
(* specification the clock counts tenths of a second.  A coroutine that    *)
(* finds the last call too recent is suspended in asyncio.sleep until its  *)
(* wake time or later; the others run meanwhile.                           *)
(***************************************************************************)
MaxRateTime == 12
MaxCalls == 3

\* api_call_delays.get(service, 1.0), in tenths of a second
api_call_delays(service) ==
    CASE service = "openai" -> 10
      [] service = "classification" -> 5
      [] service = "analysis" -> 20
      [] OTHER -> 10

\* call_openai_chat is the only caller, with the service "openai"
ServiceInputs == {"openai"}

\* the last line of _rate_limit: the call is recorded and proceeds
rate_limit_proceed(t, service) ==
    /\ last_api_call' =
           [s \in DOMAIN last_api_call \cup {service} |->
               IF s = service THEN now ELSE last_api_call[s]]
    /\ passed' = Append(passed, [task |-> t, service |-> service, at |-> now])

\* _rate_limit(service) up to its await, or to its end when it does not sleep
RateLimit(t, service) ==
    /\ tasks[t].pc = "idle"
    /\ Len(passed) + Cardinality({u \in Tasks : tasks[u].pc = "sleeping"}) < MaxCalls
    /\ IF /\ service \in DOMAIN last_api_call
          /\ now - last_api_call[service] < api_call_delays(service)
       THEN LET elapsed == now - last_api_call[service]
                sleep_time == api_call_delays(service) - elapsed
            IN  /\ tasks' = [tasks EXCEPT ![t] =
                                [pc |-> "sleeping", service |-> service,
                                 wake |-> now + sleep_time]]
                /\ UNCHANGED <<last_api_call, passed>>
       ELSE /\ rate_limit_proceed(t, service)
            /\ UNCHANGED tasks
    /\ UNCHANGED <<issues, status_changed_at, now, resp, users, cache, faults>>

\* _rate_limit after asyncio.sleep returns
RateLimitResume(t) ==
    /\ tasks[t].pc = "sleeping"
    /\ now >= tasks[t].wake
    /\ rate_limit_proceed(t, tasks[t].service)
    /\ tasks' = [tasks EXCEPT ![t] = IdleTask]
    /\ UNCHANGED <<issues, status_changed_at, now, resp, users, cache, faults>>

TickRate ==
    /\ now < MaxRateTime
    /\ now' = now + 1
    /\ UNCHANGED <<issues, status_changed_at, resp, users, service_vars>>

InitRate ==
    /\ users = SeedUsers
    /\ issues = <<>>
    /\ status_changed_at = <<>>
    /\ now = 0
    /\ resp = NoResp
    /\ InitServices

NextRate ==
    \/ \E t \in Tasks, service \in ServiceInputs : RateLimit(t, service)
    \/ \E t \in Tasks : RateLimitResume(t)
    \/ TickRate

SpecRate == InitRate /\ [][NextRate]_vars

(***************************************************************************)
(* Vocabulary of the properties.                                           *)
(***************************************************************************)
LevelRank(level) ==
    CASE level = "urgent" -> 3
      [] level = "escalate" -> 2
      [] level = "warning" -> 1
      [] OTHER -> 0

IssueIds == 1..Len(issues)

IsEscalationResp == resp.op = "should_escalate"

\* C1: for an unchanged issue table, the level should_escalate gives an issue
\* never drops when the clock advances (none < warning < escalate < urgent).
C1_LevelMonotonicInTime ==
    [][(issues' = issues /\ now' >= now) =>
          \A k \in IssueIds :
              LevelRank(should_escalate(issues[k]).escalation_level)'
                  >= LevelRank(should_escalate(issues[k]).escalation_level)]_vars

\* a call of should_escalate has returned a level above none for an issue that
\* started at none
C1_Witness ==
    /\ IsEscalationResp
    /\ now > 0
    /\ resp.result.escalation_level = "urgent"

\* The tier table of C2, in business hours.
TierThreshold(severity, tier) ==
    CASE severity = CRITICAL ->
            (CASE tier = "warning" -> 2 [] tier = "escalate" -> 4 [] OTHER -> 8)
      [] severity = HIGH ->
            (CASE tier = "warning" -> 8 [] tier = "escalate" -> 24 [] OTHER -> 48)
      [] severity = MEDIUM ->
            (CASE tier = "warning" -> 24 [] tier = "escalate" -> 72 [] OTHER -> 120)
      [] OTHER ->
            (CASE tier = "warning" -> 72 [] tier = "escalate" -> 168 [] OTHER -> 336)

TiersReached(severity, business_hours_elapsed) ==
    {tier \in {"warning", "escalate", "urgent"} :
        business_hours_elapsed >= 100 * TierThreshold(severity, tier)}

\* C2: the level returned is the highest tier of the table whose threshold the
\* elapsed business hours have reached, and none when no tier is reached.
C2_HighestTierReached ==
    IsEscalationResp =>
        LET issue == issues[resp.issue_id]
            reached == TiersReached(issue.severity, resp.result.business_hours_elapsed)
            level == resp.result.escalation_level
        IN  IF reached = {} THEN level = NoLevel
            ELSE /\ level \in reached
                 /\ \A tier \in reached : LevelRank(tier) <= LevelRank(level)

\* a HIGH issue between its escalate and urgent thresholds was classified
C2_Witness ==
    /\ IsEscalationResp
    /\ issues[resp.issue_id].severity = HIGH
    /\ resp.result.business_hours_elapsed >= 2400
    /\ resp.result.business_hours_elapsed < 4800
    /\ resp.result.escalation_level = "escalate"

\* The elapsed time the specification prescribes: from the last status change,
\* from creation when the status never changed.
StatusSince(k) ==
    IF status_changed_at[k] # NoTime THEN status_changed_at[k] ELSE issues[k].created_at

\* C3: the business hours should_escalate reports are measured from the issue's
\* last status change, and from its creation only if the status never changed.
C3_ElapsedSinceStatusChange ==
    IsEscalationResp =>
        resp.result.business_hours_elapsed
            = get_business_hours_between(StatusSince(resp.issue_id), now)

\* The risk score of the specification, in hundredths: unassigned and CRITICAL
\* or HIGH 0.3, three or more other open issues of the same severity 0.2,
\* weekend 0.1 (time 0 is a Monday, 00:00), a reporter with at most two issues
\* 0.1, two or more urgency keywords in the text 0.2; capped at 1.0.
urgency_keywords == {"urgent", "production", "down", "outage", "critical", "asap"}

SameSeverityOpen(issue) ==
    {k \in IssueIds :
        /\ issues[k].id # issue.id
        /\ issues[k].status # DONE
        /\ issues[k].severity = issue.severity}

ReportedBy(u) == {k \in IssueIds : issues[k].reporter_id = u}

IsWeekend(t) == (t \div 24) % 7 \in {5, 6}

RiskUnassigned(issue) ==
    IF issue.assignee_id = NoId /\ issue.severity \in {CRITICAL, HIGH} THEN 30 ELSE 0

RiskOther(issue) ==
    (IF Cardinality(SameSeverityOpen(issue)) >= 3 THEN 20 ELSE 0)
    + (IF IsWeekend(now) THEN 10 ELSE 0)
    + (IF Cardinality(ReportedBy(issue.reporter_id)) <= 2 THEN 10 ELSE 0)
    + (IF Cardinality(Range(issue.text) \cap urgency_keywords) >= 2 THEN 20 ELSE 0)

RiskScore(issue) ==
    LET total == RiskUnassigned(issue) + RiskOther(issue)
    IN  IF total > 100 THEN 100 ELSE total

\* C4: whenever the risk score exceeds 0.7, the level should_escalate returns is
\* at least escalate, whatever the elapsed business hours.
C4_RiskForcesEscalate ==
    (IsEscalationResp /\ RiskScore(issues[resp.issue_id]) > 70) =>
        LevelRank(resp.result.escalation_level) >= LevelRank("escalate")

\* C5: a CRITICAL, unassigned issue with 0 business hours elapsed and no other
\* risk signal gets level none and is not flagged as needing escalation.
C5_FreshCriticalNotFlagged ==
    LET issue == issues[resp.issue_id]
    IN  (/\ IsEscalationResp
         /\ issue.severity = CRITICAL
         /\ issue.assignee_id = NoId
         /\ resp.result.business_hours_elapsed = 0
         /\ RiskOther(issue) = 0
         /\ count_similar_open_issues(issue) = 0)
        => (/\ resp.result.escalation_level = NoLevel
            /\ ~resp.result.should_escalate)

IsNotificationsResp == resp.op = "generate_smart_notifications"

EscalationNotifications(k) ==
    {n \in 1..Len(resp.notifications) :
        /\ resp.notifications[n].type = "escalation"
        /\ resp.notifications[n].issue_id = k}

\* C6: an issue whose status is DONE is never flagged by should_escalate, never
\* gets a level of warning or above, and never yields an escalation
\* notification, through whichever entry point it is checked.
C6_DoneExcluded ==
    /\ (IsEscalationResp /\ issues[resp.issue_id].status = DONE) =>
           (/\ ~resp.result.should_escalate
            /\ resp.result.escalation_level = NoLevel)
    /\ (resp.op = "check_escalation_need" /\ resp.status_code = 200) =>
           \A c \in Range(resp.escalation_checks) :
               issues[c.issue_id].status = DONE =>
                   (/\ ~c.escalation_needed.should_escalate
                    /\ c.escalation_needed.escalation_level = NoLevel)
    /\ IsNotificationsResp =>
           \A k \in IssueIds :
               issues[k].status = DONE => EscalationNotifications(k) = {}

\* C7: once an issue's status is DONE, no operation changes its status again.
C7_DoneIsTerminal ==
    [][\A k \in IssueIds :
          issues[k].status = DONE => issues'[k].status = DONE]_vars

\* C8: no issue's assignee is a user with the REPORTER role: an assignee, when
\* present, is an ADMIN or a MAINTAINER.
C8_AssigneeNeverReporter ==
    \A k \in IssueIds :
        issues[k].assignee_id # NoId =>
            users[issues[k].assignee_id].role \in {ADMIN, MAINTAINER}

\* C9: a run of the composer emits exactly one escalation notification for each
\* issue that is not DONE and whose level is warning or above, and none for an
\* issue whose level is none.
C9_EscalationNotificationIffLevel ==
    IsNotificationsResp =>
        \A k \in IssueIds :
            issues[k].status # DONE =>
                Cardinality(EscalationNotifications(k))
                    = (IF LevelRank(should_escalate(issues[k]).escalation_level) >= 1
                       THEN 1 ELSE 0)

\* The users a notification is addressed to: its user_id, when it has one.
NotificationTargets(notification) == {notification.user_id} \ {NoId}

Admins == {u \in UserIds : users[u].role = ADMIN}

\* C10: an escalation notification for an issue at level urgent targets every
\* ADMIN-role user, whoever the assignee is.
C10_UrgentTargetsAdmins ==
    IsNotificationsResp =>
        \A n \in Range(resp.notifications) :
            (n.type = "escalation" /\ n.escalation_level = "urgent") =>
                Admins \subseteq NotificationTargets(n)

(***************************************************************************)
(* The rank score of the notification feed: urgency weight x type weight,  *)
(* high=3, medium=2, low=1; escalation=3, bottleneck/pattern=2,            *)
(* assignment_needed=2, workload=1 (a type the table does not name weighs  *)
(* 1).                                                                     *)
(***************************************************************************)
RankUrgencyWeight(urgency) ==
    CASE urgency = "high" -> 3 [] urgency = "medium" -> 2 [] OTHER -> 1

RankTypeWeight(type) ==
    CASE type = "escalation" -> 3
      [] type \in {"bottleneck_detected", "trend_alert"} -> 2
      [] type = "assignment_needed" -> 2
      [] OTHER -> 1

RankScore(notification) ==
    RankUrgencyWeight(notification.urgency) * RankTypeWeight(notification.type)

Occurrences(x, s) == Cardinality({k \in 1..Len(s) : s[k] = x})

\* the notifications of the collected list that the returned list lacks
Dropped(collected, returned) ==
    {x \in Range(collected) : Occurrences(x, collected) > Occurrences(x, returned)}

IsRankSorted(s) ==
    \A i \in 1..Len(s), j \in 1..Len(s) : i < j => RankScore(s[i]) >= RankScore(s[j])

\* C11: the returned list holds at most 20 notifications, and every
\* notification kept has a rank score greater than or equal to that of every
\* notification dropped.
C11_TruncationDropsLowest ==
    IsNotificationsResp =>
        LET collected == collected_notifications(resp.user_list)
            returned == resp.notifications
        IN  /\ Len(returned) <= 20
            /\ \A kept \in Range(returned), dropped \in Dropped(collected, returned) :
                    RankScore(kept) >= RankScore(dropped)

\* more than 20 notifications were collected, in an order that is not the
\* rank order, and something of a lower rank than the last one kept was
\* dropped
C11_Witness ==
    /\ IsNotificationsResp
    /\ LET collected == collected_notifications(resp.user_list)
           returned == resp.notifications
       IN  /\ Len(collected) > 20
           /\ ~IsRankSorted(collected)
           /\ Len(returned) = 20
           /\ \E dropped \in Dropped(collected, returned) :
                  RankScore(dropped) < RankScore(returned[20])

\* C12: the returned notifications are in non-increasing order of rank score
\* (urgency weight x type weight, with the weights above).
C12_OrderedByRankScore ==
    IsNotificationsResp => IsRankSorted(resp.notifications)

\* a returned list of three or more different rank scores, among them an
\* escalation, made from a collected list that was not in rank order
C12_Witness ==
    /\ IsNotificationsResp
    /\ ~IsRankSorted(collected_notifications(resp.user_list))
    /\ Cardinality({RankScore(resp.notifications[k]) :
                       k \in 1..Len(resp.notifications)}) >= 3
    /\ \E k \in 1..Len(resp.notifications) : resp.notifications[k].type = "escalation"

\* C13: one run never returns two notifications of the same type for the
\* same issue and the same target user.
C13_NoDuplicateNotifications ==
    IsNotificationsResp =>
        \A i \in 1..Len(resp.notifications), j \in 1..Len(resp.notifications) :
            (/\ i < j
             /\ resp.notifications[i].issue_id # NoId
             /\ resp.notifications[i].type = resp.notifications[j].type
             /\ resp.notifications[i].issue_id = resp.notifications[j].issue_id)
            => resp.notifications[i].user_id # resp.notifications[j].user_id

(***************************************************************************)
(* Vocabulary of the properties of the assignment ranker.                  *)
(***************************************************************************)
IsSuggestResp == resp.op = "suggest_assignee"

\* the ranked suggestions of an answer, under either of its two keys
RankedSuggestions(result) ==
    IF "all_suggestions" \in DOMAIN result THEN result.all_suggestions
    ELSE result.suggestions

EligibleCandidates ==
    {k \in DOMAIN users : users[k].is_active /\ users[k].role # REPORTER}

IsNoCandidatesError(result) ==
    "error" \in DOMAIN result /\ result.error = TRUE

\* C14: when no candidate is left after the inactive users and the
\* REPORTERs are removed, the ranker fails with an error instead of
\* returning a result.
C14_NoCandidatesErrorRaised ==
    (IsSuggestResp /\ EligibleCandidates = {}) => IsNoCandidatesError(resp.result)

\* C15: neither the recommended assignee nor any ranked suggestion is a
\* user of role REPORTER.
C15_NeverSuggestsReporter ==
    IsSuggestResp =>
        /\ resp.result.recommended_assignee.id # NoId =>
              /\ users[resp.result.recommended_assignee.id].role # REPORTER
              /\ resp.result.recommended_assignee.role # "REPORTER"
        /\ \A k \in 1..Len(RankedSuggestions(resp.result)) :
              /\ users[RankedSuggestions(resp.result)[k].user_id].role # REPORTER
              /\ RankedSuggestions(resp.result)[k].user_role # "REPORTER"

\* an assignee is recommended from a table whose first row is an active
\* REPORTER without any open issue
C15_Witness ==
    /\ IsSuggestResp
    /\ Len(users) >= 2
    /\ users[1].role = REPORTER /\ users[1].is_active
    /\ \A k \in 1..Len(issues) : issues[k].assignee_id # 1
    /\ resp.result.recommended_assignee.id = 2

\* C16: neither the recommended assignee nor any ranked suggestion is an
\* inactive user.
C16_NeverSuggestsInactive ==
    IsSuggestResp =>
        /\ resp.result.recommended_assignee.id # NoId =>
              users[resp.result.recommended_assignee.id].is_active
        /\ \A k \in 1..Len(RankedSuggestions(resp.result)) :
              users[RankedSuggestions(resp.result)[k].user_id].is_active

\* The sub-scores of an answer are rounded to two decimals, which moves
\* their weighed sum by less than 0.7 of a hundredth: 70 in the unit of
\* 100 x total.
Abs(x) == IF x >= 0 THEN x ELSE -x

\* C17, as amended: the total score of every suggestion equals
\* 0.4 x expertise + 0.3 x workload + 0.2 x availability + 0.1 x priority,
\* to the two decimals of the answer.
C17_TotalIsCodeWeightedSum ==
    IsSuggestResp =>
        \A k \in 1..Len(RankedSuggestions(resp.result)) :
            LET s == RankedSuggestions(resp.result)[k]
            IN  Abs(100 * s.total_score
                    - (40 * s.expertise_score + 30 * s.workload_score
                       + 20 * s.availability_score + 10 * s.priority_score))
                <= 70

\* a suggestion whose expertise is not a whole number (7.67) and whose
\* availability and priority scores differ
C17_Witness ==
    /\ IsSuggestResp
    /\ \E k \in 1..Len(RankedSuggestions(resp.result)) :
          LET s == RankedSuggestions(resp.result)[k]
          IN  /\ s.expertise_score = 767
              /\ s.workload_score = 800
              /\ s.availability_score # s.priority_score

\* C17, as stated: the total score of every suggestion equals
\* 0.4 x expertise + 0.25 x workload + 0.2 x performance + 0.1 x availability
\* for a performance score between 0 and 10 (the engine computes none, so
\* any value in the range is accepted).
C17_TotalIsSpecWeightedSum ==
    IsSuggestResp =>
        \A k \in 1..Len(RankedSuggestions(resp.result)) :
            LET s == RankedSuggestions(resp.result)[k]
                rest == 100 * s.total_score
                        - (40 * s.expertise_score + 25 * s.workload_score
                           + 10 * s.availability_score)
            IN  /\ rest >= 20 * 0 - 70
                /\ rest <= 20 * 1000 + 70

OpenIssuesOf(user_id) ==
    Cardinality({k \in 1..Len(issues) :
        issues[k].assignee_id = user_id /\ issues[k].status # DONE})

\* a is placed before b by total score, then higher expertise, then lower
\* current workload, then identifier
RankedBefore(a, b) ==
    \/ a.total_score > b.total_score
    \/ /\ a.total_score = b.total_score
       /\ \/ a.expertise_score > b.expertise_score
          \/ /\ a.expertise_score = b.expertise_score
             /\ \/ OpenIssuesOf(a.user_id) < OpenIssuesOf(b.user_id)
                \/ /\ OpenIssuesOf(a.user_id) = OpenIssuesOf(b.user_id)
                   /\ a.user_id < b.user_id

\* C18: the suggestions are in descending order of total score, equal
\* totals by higher expertise score, then lower current workload, then
\* identifier.
C18_TieBreakOrder ==
    IsSuggestResp =>
        \A i \in 1..Len(RankedSuggestions(resp.result)),
           j \in 1..Len(RankedSuggestions(resp.result)) :
            i < j => RankedBefore(RankedSuggestions(resp.result)[i],
                                  RankedSuggestions(resp.result)[j])

PositionIn(user_id, scores) ==
    CHOOSE k \in 1..Len(scores) : scores[k].user_id = user_id

ScoredCandidates == {k \in DOMAIN users : users[k].role # REPORTER}

ExpertiseOf(user_id, issue_data) ==
    LET e == calculate_expertise_score(users[user_id],
                 identify_required_expertise(issue_data.text))
    IN  RoundQuotient(100 * e.num, e.den)

ResolvedBy(user_id) ==
    {k \in 1..Len(issues) :
        issues[k].assignee_id = user_id /\ issues[k].status = DONE}

MatchesNoDomain(text) == identify_required_expertise(text) = <<>>

\* C23: when the text of the issue matches no domain of the taxonomy, the
\* expertise score of every ranked candidate is 6.0, with or without
\* resolved issues in its history.
C23_NoDomainFlatSix ==
    (IsSuggestResp /\ MatchesNoDomain(resp.issue_data.text)) =>
        \A k \in 1..Len(RankedSuggestions(resp.result)) :
            RankedSuggestions(resp.result)[k].expertise_score = 600

\* C24: a candidate without any resolved issue is never given an expertise
\* score under the neutral 5.0, and is given 5.0 when the issue matches a
\* domain.
C24_NewCandidateNeutralFive ==
    IsSuggestResp =>
        \A k \in 1..Len(RankedSuggestions(resp.result)) :
            LET s == RankedSuggestions(resp.result)[k]
            IN  ResolvedBy(s.user_id) = {} =>
                    /\ s.expertise_score >= 500
                    /\ ~MatchesNoDomain(resp.issue_data.text)
                       => s.expertise_score = 500

\* C25: the business hours between two timestamps are the raw hours from
\* the first to the second times 8/24 times 5/7 (5/21, to the hundredth),
\* and 0, never a negative number, when the second precedes the first.
C25_BusinessHoursDerating ==
    IsEscalationResp =>
        LET start == issues[resp.issue_id].created_at
            rawHours == now - start
        IN  /\ Abs(21 * resp.result.business_hours_elapsed
                   - 500 * Max(0, rawHours)) <= 21
            /\ rawHours > 0 => get_business_hours_between(now, start) = 0

\* the step function of the workload score, in hundredths
WorkloadStep(count) ==
    CASE count = 0 -> 1000
      [] count \in 1..3 -> 800
      [] count \in 4..5 -> 600
      [] count \in 6..8 -> 400
      [] count \in 9..10 -> 200
      [] OTHER -> 100

ReporterEditFrame(u, k) ==
    /\ Len(issues') = Len(issues)
    /\ \A j \in 1..Len(issues) : j # k => issues'[j] = issues[j]
    /\ k \in 1..Len(issues) =>
          /\ issues'[k].status = issues[k].status
          /\ issues'[k].assignee_id = issues[k].assignee_id
          /\ issues'[k].id = issues[k].id
          /\ issues'[k].reporter_id = issues[k].reporter_id
          /\ issues'[k].created_at = issues[k].created_at
          /\ issues[k].reporter_id # u =>
                /\ issues'[k] = issues[k]
                /\ resp'.status_code = 403
    /\ status_changed_at' = status_changed_at

InScoreRange(score) == score >= 0 /\ score <= 1000

SubScoreNames == ScorerNames \cup {"priority"}

\* the sub-score of a suggestion, by the name of its scorer
SubScore(suggestion, scorer) ==
    CASE scorer = "expertise" -> suggestion.expertise_score
      [] scorer = "workload" -> suggestion.workload_score
      [] scorer = "availability" -> suggestion.availability_score
      [] OTHER -> suggestion.priority_score

HasSubScores(suggestion) == "expertise_score" \in DOMAIN suggestion

\* C22: every sub-score of every ranked candidate (expertise, workload,
\* availability, priority handling) is between 0 and 10, and so is its
\* total score, also when scorers or the scoring of a candidate fail.
C22_ScoresWithinRange ==
    IsSuggestResp =>
        \A k \in 1..Len(RankedSuggestions(resp.result)) :
            LET s == RankedSuggestions(resp.result)[k]
            IN  /\ InScoreRange(s.total_score)
                /\ HasSubScores(s) =>
                      \A scorer \in SubScoreNames : InScoreRange(SubScore(s, scorer))

\* a candidate whose expertise reaches the cap of 10 next to one whose
\* expertise query failed and one whose scoring failed as a whole
C22_Witness ==
    /\ IsSuggestResp
    /\ \E i, j, k \in 1..Len(RankedSuggestions(resp.result)) :
          LET a == RankedSuggestions(resp.result)[i]
              b == RankedSuggestions(resp.result)[j]
              c == RankedSuggestions(resp.result)[k]
          IN  /\ HasSubScores(a) /\ a.expertise_score = 1000
              /\ <<b.user_id, "expertise">> \in faults
              /\ HasSubScores(b) /\ b.expertise_score = 500
              /\ <<c.user_id, "score">> \in faults
              /\ ~HasSubScores(c) /\ c.total_score = 0

\* the value a scorer answers with when it cannot compute
NeutralDefault(scorer) ==
    CASE scorer = "expertise" -> 500
      [] scorer = "workload" -> 500
      [] OTHER -> 700

\* what the scorer computes for the user from the tables when nothing fails
ComputedScore(user_id, issue_data, scorer) ==
    CASE scorer = "expertise" ->
            LET e == calculate_expertise_score_try(users[user_id],
                         identify_required_expertise(issue_data.text))
            IN  RoundQuotient(100 * e.num, e.den)
      [] scorer = "workload" -> WorkloadStep(OpenIssuesOf(user_id))
      [] scorer = "availability" -> calculate_availability_score_try(users[user_id])
      [] OTHER -> calculate_priority_score(issue_data, users[user_id])

IsExperienceResp == resp.op = "get_user_experience_score"

\* the experience score of the step rule, in tenths
ExperienceStep(resolved_count) ==
    CASE resolved_count >= 50 -> 10
      [] resolved_count \in 20..49 -> 8
      [] resolved_count \in 10..19 -> 6
      [] resolved_count \in 5..9 -> 4
      [] OTHER -> 2

\* C28: after any sequence of resolutions and lookups, the experience
\* score a lookup returns for a user is the score of the step rule for the
\* number of issues the user has resolved at that moment, as without cache.
C28_ExperienceScoreIsCurrent ==
    (IsExperienceResp /\ resp.user_id # NoId) =>
        resp.result = ExperienceStep(Cardinality(ResolvedBy(resp.user_id)))

EngineOps == {"suggest_assignee", "should_escalate", "generate_smart_notifications"}

\* the answer in resp is the answer of the same call on the tables as they
\* are, whatever the service instances hold
EngineAnswerAlone ==
    CASE resp.op = "suggest_assignee" ->
            resp.result = suggest_assignee(resp.issue_data)
      [] resp.op = "should_escalate" ->
            resp.result = should_escalate(issues[resp.issue_id])
      [] resp.op = "generate_smart_notifications" ->
            resp.notifications = generate_smart_notifications(resp.user_list)
      [] OTHER -> TRUE

ConfiguredDelay(service) ==
    CASE service = "openai" -> 10
      [] service = "classification" -> 5
      [] service = "analysis" -> 20
      [] OTHER -> 10

\* C29: any two calls that pass through _rate_limit for the same service
\* proceed at least the configured delay of the service apart, also when
\* their coroutines interleave at its await.
C29_CallsAreSpaced ==
    \A i \in 1..Len(passed), j \in 1..Len(passed) :
        (i < j /\ passed[i].service = passed[j].service)
        => passed[j].at - passed[i].at >= ConfiguredDelay(passed[i].service)
====
